---- MODULE Spec2Model ----
(***************************************************************************)
(* Model of geopyspark/geotrellis/rdd.py: the Python wrappers RasterRDD    *)
(* and TiledRasterRDD around a remote raster engine (srdd).  Every method  *)
(* is an operator that computes, from the wrapper it is called on, its     *)
(* arguments and the engine's answers, the outcome of the call: the        *)
(* exception raised (or "none"), the requests sent to the engine in order, *)
(* and the value returned.  An action performs one call and records it in  *)
(* the variable last.                                                      *)
(***************************************************************************)
EXTENDS Integers, Sequences, FiniteSets, TLC

VARIABLES wrappers, engine, last, request

vars == <<wrappers, engine, last, request>>

(***************************************************************************)
(* Python values.  Every value is a record tagged by its Python type.      *)
(* A float is kept as a count of halves (h = 3 is 1.5) so that 1 == 1.0    *)
(* is something the model computes rather than assumes.                    *)
(***************************************************************************)
None == [t |-> "none"]
IntV(n) == [t |-> "int", i |-> n]
FloatV(halves) == [t |-> "float", h |-> halves]
StrV(chars) == [t |-> "str", s |-> chars]
NaN == [t |-> "float", nan |-> TRUE]
Tuple(items) == [t |-> "tuple", items |-> items]
List(items) == [t |-> "list", items |-> items]
NoExc == "none"

\* Python truth value of x, as used by `if x`, `not x`, `x and y`.
Truthy(x) ==
    CASE x.t = "none" -> FALSE
      [] x.t = "int" -> x.i # 0
      [] x.t = "float" -> IF "nan" \in DOMAIN x THEN TRUE ELSE x.h # 0
      [] x.t = "str" -> x.s # ""
      [] x.t \in {"tuple", "list"} -> x.items # <<>>
      [] OTHER -> TRUE

Digit(d) ==
    CASE d = 0 -> "0" [] d = 1 -> "1" [] d = 2 -> "2" [] d = 3 -> "3"
      [] d = 4 -> "4" [] d = 5 -> "5" [] d = 6 -> "6" [] d = 7 -> "7"
      [] d = 8 -> "8" [] d = 9 -> "9"

RECURSIVE Decimal(_)
Decimal(n) == IF n < 10 THEN Digit(n) ELSE Decimal(n \div 10) \o Digit(n % 10)

\* str(n) for an int n.
PyStr(x) == StrV(IF x.i < 0 THEN "-" \o Decimal(-x.i) ELSE Decimal(x.i))

\* json.dumps / json.loads: a document travels as a JSON string.
JsonDumps(doc) == [t |-> "json", doc |-> doc]
JsonLoads(text) == text.doc

(***************************************************************************)
(* Constants imported from geopyspark.geotrellis.constants.                *)
(***************************************************************************)
SPATIAL == "spatial"
SPACETIME == "spacetime"
NEARESTNEIGHBOR == "NearestNeighbor"
RESAMPLE_METHODS ==
    {"NearestNeighbor", "Bilinear", "CubicConvolution", "CubicSpline",
     "Lanczos", "Average", "Mode", "Median", "Max", "Min"}
CELL_TYPES ==
    {"bool", "int8", "uint8", "int16", "uint16", "int32", "float32", "float64"}
FLOAT == "float"

(***************************************************************************)
(* Layouts and layer metadata, as the engine reports them.                 *)
(***************************************************************************)
Extent(xmin, ymin, xmax, ymax) ==
    [t |-> "dict", xmin |-> xmin, ymin |-> ymin, xmax |-> xmax, ymax |-> ymax]
TileLayout(lc, lr, tc, tr) ==
    [t |-> "dict", layoutCols |-> lc, layoutRows |-> lr, tileCols |-> tc, tileRows |-> tr]
Key(c, r) == [col |-> c, row |-> r]
Metadata(ext, tl, lo, hi) ==
    [t |-> "dict",
     bounds |-> [minKey |-> lo, maxKey |-> hi],
     layoutDefinition |-> [extent |-> ext, tileLayout |-> tl]]

ExtentA == Extent(0, 0, 10, 6)
LayoutA == TileLayout(2, 2, 4, 4)
LayoutB == TileLayout(2, 2, 5, 5)
LayoutC == TileLayout(2, 2, 3, 4)
MetaA == Metadata(ExtentA, LayoutA, Key(1, 1), Key(2, 2))
MetaB == Metadata(ExtentA, LayoutB, Key(1, 1), Key(2, 2))
MetaC == Metadata(ExtentA, LayoutC, Key(1, 1), Key(2, 2))
Metas == {MetaA, MetaB, MetaC}

\* Handles the engine hands out for the collections it creates.
NewHandles == {101}

(***************************************************************************)
(* Wrappers.                                                               *)
(***************************************************************************)
\* RDDWrapper.__init__ followed by the subclass __init__.
RasterRDD(rdd_type, srdd) ==
    [t |-> "RasterRDD", rdd_type |-> rdd_type, srdd |-> srdd, is_cached |-> FALSE]
TiledRasterRDD(rdd_type, srdd) ==
    [t |-> "TiledRasterRDD", rdd_type |-> rdd_type, srdd |-> srdd, is_cached |-> FALSE]

\* One request to the engine: method m on handle h with arguments a.
Req(m, h, a) == [m |-> m, h |-> h, a |-> a]

\* The outcome of one call.
Raise(exc, calls) == [exc |-> exc, calls |-> calls, ret |-> None]
Return(ret, calls) == [exc |-> NoExc, calls |-> calls, ret |-> ret]

\* json.loads(self.srdd.layerMetadata())
layer_metadata(self) == JsonLoads(JsonDumps(engine[self.srdd].md))
LayerMetadataReq(self) == Req("layerMetadata", self.srdd, <<>>)

(***************************************************************************)
(* RDDWrapper methods.  Their outcome also carries self after the call.    *)
(***************************************************************************)
MEMORY_ONLY == "MEMORY_ONLY"
StorageLevel(name) == [t |-> "StorageLevel", name |-> name]

\* geopysc.pysc._getJavaStorageLevel(storageLevel), for a StorageLevel.
JavaStorageLevel(storageLevel) == [t |-> "JavaStorageLevel", name |-> storageLevel.name]

\* persist that sends the request and leaves is_cached alone.
persist_flag_untouched(self, storageLevel, accepted) ==
    IF storageLevel.t # "StorageLevel"
    THEN [exc |-> "Exception", calls |-> <<>>, ret |-> None, self |-> self]
    ELSE LET calls == <<Req("persist", self.srdd, <<JavaStorageLevel(storageLevel)>>)>>
         IN  IF accepted
             THEN [exc |-> NoExc, calls |-> calls, ret |-> self, self |-> self]
             ELSE [exc |-> "Py4JJavaError", calls |-> calls, ret |-> None, self |-> self]

\* RDDWrapper.persist; accepted tells whether the engine's persist succeeds.
persist(self, storageLevel, accepted) ==
    IF storageLevel.t # "StorageLevel"
    THEN [exc |-> "Exception", calls |-> <<>>, ret |-> None, self |-> self]
    ELSE LET cached == [self EXCEPT !.is_cached = TRUE]
             calls == <<Req("persist", self.srdd, <<JavaStorageLevel(storageLevel)>>)>>
         IN  IF accepted
             THEN [exc |-> NoExc, calls |-> calls, ret |-> cached, self |-> cached]
             ELSE [exc |-> "Py4JJavaError", calls |-> calls, ret |-> None, self |-> cached]

\* RDDWrapper.cache
cache(self, accepted) == persist(self, StorageLevel(MEMORY_ONLY), accepted)

\* RDDWrapper.unpersist; accepted tells whether the engine's unpersist succeeds.
unpersist(self, accepted) ==
    LET uncached == [self EXCEPT !.is_cached = FALSE]
        calls == <<Req("unpersist", self.srdd, <<>>)>>
    IN  IF accepted
        THEN [exc |-> NoExc, calls |-> calls, ret |-> uncached, self |-> uncached]
        ELSE [exc |-> "Py4JJavaError", calls |-> calls, ret |-> None, self |-> uncached]

(***************************************************************************)
(* RasterRDD methods.                                                      *)
(***************************************************************************)
\* RasterRDD.convert_data_type; h is the handle the engine answers with.
RasterConvertDataType(self, new_type, h) ==
    IF new_type.s \notin CELL_TYPES
    THEN Raise("ValueError", <<>>)
    ELSE Return(RasterRDD(self.rdd_type, h),
                <<Req("convertDataType", self.srdd, <<new_type>>)>>)

\* collect_metadata with a partial extent/layout falling back to the tile size.
collect_metadata_defaulting(self, extent, layout, crs, tile_size, md) ==
    LET crs1 == IF ~Truthy(crs) THEN StrV("") ELSE crs
        crs2 == IF crs1.t = "int" THEN PyStr(crs1) ELSE crs1
    IN  IF Truthy(extent) /\ Truthy(layout)
        THEN Return(JsonLoads(JsonDumps(md)),
                    <<Req("collectMetadata", self.srdd, <<extent, layout, crs2>>)>>)
        ELSE Return(JsonLoads(JsonDumps(md)),
                    <<Req("collectMetadata", self.srdd, <<PyStr(tile_size), crs2>>)>>)

\* collect_metadata that sends the default tile size whatever tile_size is.
collect_metadata_default_tile_size(self, extent, layout, crs, tile_size, md) ==
    LET crs1 == IF ~Truthy(crs) THEN StrV("") ELSE crs
        crs2 == IF crs1.t = "int" THEN PyStr(crs1) ELSE crs1
    IN  IF Truthy(extent) /\ Truthy(layout)
        THEN Return(JsonLoads(JsonDumps(md)),
                    <<Req("collectMetadata", self.srdd, <<extent, layout, crs2>>)>>)
        ELSE IF ~Truthy(extent) /\ ~Truthy(layout)
        THEN Return(JsonLoads(JsonDumps(md)),
                    <<Req("collectMetadata", self.srdd, <<StrV("256"), crs2>>)>>)
        ELSE Raise("TypeError", <<>>)

\* RasterRDD.collect_metadata; md is the metadata the engine computes.
collect_metadata(self, extent, layout, crs, tile_size, md) ==
    LET crs1 == IF ~Truthy(crs) THEN StrV("") ELSE crs
        crs2 == IF crs1.t = "int" THEN PyStr(crs1) ELSE crs1
    IN  IF Truthy(extent) /\ Truthy(layout)
        THEN Return(JsonLoads(JsonDumps(md)),
                    <<Req("collectMetadata", self.srdd, <<extent, layout, crs2>>)>>)
        ELSE IF ~Truthy(extent) /\ ~Truthy(layout)
        THEN Return(JsonLoads(JsonDumps(md)),
                    <<Req("collectMetadata", self.srdd, <<PyStr(tile_size), crs2>>)>>)
        ELSE Raise("TypeError", <<>>)

\* RasterRDD.reproject
RasterReproject(self, target_crs, resample_method, h) ==
    IF resample_method.s \notin RESAMPLE_METHODS
    THEN Raise("ValueError", <<>>)
    ELSE LET crs == IF target_crs.t = "int" THEN PyStr(target_crs) ELSE target_crs
         IN  Return(RasterRDD(self.rdd_type, h),
                    <<Req("reproject", self.srdd, <<crs, resample_method>>)>>)

\* RasterRDD.cut_tiles
cut_tiles(self, layer_metadata_arg, resample_method, h) ==
    IF resample_method.s \notin RESAMPLE_METHODS
    THEN Raise("ValueError", <<>>)
    ELSE Return(TiledRasterRDD(self.rdd_type, h),
                <<Req("cutTiles", self.srdd,
                      <<JsonDumps(layer_metadata_arg), resample_method>>)>>)

\* tile_to_layout that asks the engine to cut without merging.
tile_to_layout_without_merge(self, layer_metadata_arg, resample_method, h) ==
    IF resample_method.s \notin RESAMPLE_METHODS
    THEN Raise("ValueError", <<>>)
    ELSE Return(TiledRasterRDD(self.rdd_type, h),
                <<Req("cutTiles", self.srdd,
                      <<JsonDumps(layer_metadata_arg), resample_method>>)>>)

\* tile_to_layout that resets the key bounds of the document it sends.
tile_to_layout_resetting_bounds(self, layer_metadata_arg, resample_method, h) ==
    IF resample_method.s \notin RESAMPLE_METHODS
    THEN Raise("ValueError", <<>>)
    ELSE Return(TiledRasterRDD(self.rdd_type, h),
                <<Req("tileToLayout", self.srdd,
                      <<JsonDumps([layer_metadata_arg EXCEPT
                                      !.bounds = [minKey |-> Key(0, 0), maxKey |-> Key(0, 0)]]),
                        resample_method>>)>>)

\* RasterRDD.tile_to_layout
RasterTileToLayout(self, layer_metadata_arg, resample_method, h) ==
    IF resample_method.s \notin RESAMPLE_METHODS
    THEN Raise("ValueError", <<>>)
    ELSE Return(TiledRasterRDD(self.rdd_type, h),
                <<Req("tileToLayout", self.srdd,
                      <<JsonDumps(layer_metadata_arg), resample_method>>)>>)

\* RasterRDD.to_tiled_layer: collect_metadata, then tile_to_layout on its result.
to_tiled_layer(self, extent, layout, crs, tile_size, resample_method, md, h) ==
    LET cm == collect_metadata(self, extent, layout, crs, tile_size, md)
    IN  IF cm.exc # NoExc
        THEN cm
        ELSE LET tl == RasterTileToLayout(self, cm.ret, resample_method, h)
             IN  [exc |-> tl.exc, calls |-> cm.calls \o tl.calls, ret |-> tl.ret]

(***************************************************************************)
(* TiledRasterRDD methods.                                                 *)
(***************************************************************************)
OPERATIONS ==
    {"Sum", "Min", "Max", "Mean", "Median", "Mode", "StandardDeviation",
     "Aspect", "Slope"}
SLOPE == "Slope"
ASPECT == "Aspect"
SQUARE == "square"
NEIGHBORHOODS == {"annulus", "nesw", "square", "wedge", "circle"}

\* An instance of geopyspark.geotrellis.neighborhoods.Neighborhood.
Neighborhood(name, p1, p2, p3) ==
    [t |-> "Neighborhood", name |-> name, param_1 |-> p1, param_2 |-> p2, param_3 |-> p3]

\* float(x) for a number x.
PyFloat(x) == IF x.t = "int" THEN FloatV(2 * x.i) ELSE x

\* A reference to an engine collection passed as an argument.
Srdd(h) == [t |-> "srdd", h |-> h]

\* shapely.wkt.dumps(geometry): the WKT text of a geometry.
Dumps(geometry) == StrV(geometry.wkt)

\* Whether dumps(geometry) succeeds: geometry is a Shapely geometry.
IsGeometry(geometry) == geometry.t \in {"Polygon", "MultiPolygon"}

\* The engine's class-level constructors are called on no collection handle.
NoHandle == 0
SparkContext == [t |-> "SparkContext"]

\* rasterize with a falsy instant always taking the spatial constructor.
rasterize_falsy_to_spatial(rdd_type, geometry, extent, crs, cols, rows, fill_value, instant, h) ==
    IF geometry.t # "str" /\ ~IsGeometry(geometry)
    THEN Raise("TypeError", <<>>)
    ELSE LET wkt == IF geometry.t # "str" THEN Dumps(geometry) ELSE geometry
             crs1 == IF crs.t = "int" THEN PyStr(crs) ELSE crs
         IN  IF Truthy(instant) /\ rdd_type.s # SPATIAL
             THEN Return(TiledRasterRDD(rdd_type.s, h),
                         <<Req("TemporalTiledRasterRDD.rasterize", NoHandle,
                               <<SparkContext, wkt, extent, crs1, instant, cols, rows,
                                 fill_value>>)>>)
             ELSE IF ~Truthy(instant)
             THEN Return(TiledRasterRDD(rdd_type.s, h),
                         <<Req("SpatialTiledRasterRDD.rasterize", NoHandle,
                               <<SparkContext, wkt, extent, crs1, cols, rows, fill_value>>)>>)
             ELSE Raise("TypeError", <<>>)

\* TiledRasterRDD.rasterize (a classmethod); h is the handle the engine answers with.
rasterize(rdd_type, geometry, extent, crs, cols, rows, fill_value, instant, h) ==
    IF geometry.t # "str" /\ ~IsGeometry(geometry)
    THEN Raise("TypeError", <<>>)
    ELSE LET wkt == IF geometry.t # "str" THEN Dumps(geometry) ELSE geometry
             crs1 == IF crs.t = "int" THEN PyStr(crs) ELSE crs
         IN  IF Truthy(instant) /\ rdd_type.s # SPATIAL
             THEN Return(TiledRasterRDD(rdd_type.s, h),
                         <<Req("TemporalTiledRasterRDD.rasterize", NoHandle,
                               <<SparkContext, wkt, extent, crs1, instant, cols, rows,
                                 fill_value>>)>>)
             ELSE IF ~Truthy(instant) /\ rdd_type.s = SPATIAL
             THEN Return(TiledRasterRDD(rdd_type.s, h),
                         <<Req("SpatialTiledRasterRDD.rasterize", NoHandle,
                               <<SparkContext, wkt, extent, crs1, cols, rows, fill_value>>)>>)
             ELSE Raise("TypeError", <<>>)

\* TiledRasterRDD.convert_data_type
TiledConvertDataType(self, new_type, h) ==
    Return(TiledRasterRDD(self.rdd_type, h),
           <<Req("convertDataType", self.srdd, <<new_type>>)>>)

\* TiledRasterRDD.reproject
TiledReproject(self, target_crs, extent, layout, scheme, tile_size, resolution_threshold, resample_method, h) ==
    IF resample_method.s \notin RESAMPLE_METHODS
    THEN Raise("ValueError", <<>>)
    ELSE LET crs == IF target_crs.t = "int" THEN PyStr(target_crs) ELSE target_crs
         IN  IF Truthy(extent) /\ Truthy(layout)
             THEN Return(TiledRasterRDD(self.rdd_type, h),
                         <<Req("reproject", self.srdd,
                               <<extent, layout, crs, resample_method>>)>>)
             ELSE IF ~Truthy(extent) /\ ~Truthy(layout)
             THEN Return(TiledRasterRDD(self.rdd_type, h),
                         <<Req("reproject", self.srdd,
                               <<scheme, tile_size, resolution_threshold, crs,
                                 resample_method>>)>>)
             ELSE Raise("TypeError", <<>>)

\* ser.loads(tile)[0]: one encoded tile decoded into an array.
SerLoads(tile) == [t |-> "ndarray", of |-> tile.id]

\* lookup that checks the column against the bounds and not the row.
lookup_column_only(self, col, row, tiles) ==
    IF self.rdd_type # SPATIAL
    THEN Raise("ValueError", <<>>)
    ELSE LET bounds == layer_metadata(self).bounds
             fetched == <<LayerMetadataReq(self)>>
         IN  IF col.i < bounds.minKey.col \/ col.i > bounds.maxKey.col
             THEN Raise("IndexError", fetched)
             ELSE Return(List([k \in DOMAIN tiles |-> SerLoads(tiles[k])]),
                         fetched \o <<Req("lookup", self.srdd, <<col, row>>)>>)

\* TiledRasterRDD.lookup; tiles is the array of encoded tiles the engine answers with.
lookup(self, col, row, tiles) ==
    IF self.rdd_type # SPATIAL
    THEN Raise("ValueError", <<>>)
    ELSE LET bounds == layer_metadata(self).bounds
             min_col == bounds.minKey.col
             min_row == bounds.minKey.row
             max_col == bounds.maxKey.col
             max_row == bounds.maxKey.row
             fetched == <<LayerMetadataReq(self)>>
         IN  IF col.i < min_col \/ col.i > max_col
             THEN Raise("IndexError", fetched)
             ELSE IF row.i < min_row \/ row.i > max_row
             THEN Raise("IndexError", fetched)
             ELSE Return(List([k \in DOMAIN tiles |-> SerLoads(tiles[k])]),
                         fetched \o <<Req("lookup", self.srdd, <<col, row>>)>>)

\* TiledRasterRDD.tile_to_layout
TiledTileToLayout(self, layout, resample_method, h) ==
    IF resample_method.s \notin RESAMPLE_METHODS
    THEN Raise("ValueError", <<>>)
    ELSE Return(TiledRasterRDD(self.rdd_type, h),
                <<Req("tileToLayout", self.srdd, <<layout, resample_method>>)>>)

\* x & y for x, y >= 0.
RECURSIVE BitAnd(_, _)
BitAnd(x, y) ==
    IF x = 0 \/ y = 0 THEN 0
    ELSE (IF x % 2 = 1 /\ y % 2 = 1 THEN 1 ELSE 0) + 2 * BitAnd(x \div 2, y \div 2)

\* pyramid reading the layer metadata before it validates the resample method.
pyramid_fetch_first(self, start_zoom, end_zoom, resample_method, hs) ==
    LET size == layer_metadata(self).layoutDefinition.tileLayout.tileRows
        fetched == <<LayerMetadataReq(self)>>
    IN  IF resample_method.s \notin RESAMPLE_METHODS
        THEN Raise("ValueError", fetched)
        ELSE IF (IF size = 0 THEN 0 ELSE BitAnd(size, size - 1)) # 0
        THEN Raise("ValueError", fetched)
        ELSE Return(List([k \in DOMAIN hs |-> TiledRasterRDD(self.rdd_type, hs[k])]),
                    fetched \o <<Req("pyramid", self.srdd,
                                     <<start_zoom, end_zoom, resample_method>>)>>)

\* TiledRasterRDD.pyramid; hs is the list of handles the engine answers with.
pyramid(self, start_zoom, end_zoom, resample_method, hs) ==
    IF resample_method.s \notin RESAMPLE_METHODS
    THEN Raise("ValueError", <<>>)
    ELSE LET size == layer_metadata(self).layoutDefinition.tileLayout.tileRows
             fetched == <<LayerMetadataReq(self)>>
         IN  IF (IF size = 0 THEN 0 ELSE BitAnd(size, size - 1)) # 0
             THEN Raise("ValueError", fetched)
             ELSE Return(List([k \in DOMAIN hs |-> TiledRasterRDD(self.rdd_type, hs[k])]),
                         fetched \o <<Req("pyramid", self.srdd,
                                          <<start_zoom, end_zoom, resample_method>>)>>)

\* A parameter of focal that was left unset defaults to 0.0.
ParamOrZero(p) == IF p.t = "none" THEN FloatV(0) ELSE p

\* TiledRasterRDD.focal
focal(self, operation, neighborhood, param_1, param_2, param_3, h) ==
    IF operation.s \notin OPERATIONS
    THEN Raise("ValueError", <<>>)
    ELSE IF neighborhood.t = "Neighborhood"
    THEN Return(TiledRasterRDD(self.rdd_type, h),
                <<Req("focal", self.srdd,
                      <<operation, neighborhood.name, neighborhood.param_1,
                        neighborhood.param_2, neighborhood.param_3>>)>>)
    ELSE IF neighborhood.t = "str"
    THEN IF neighborhood.s \notin NEIGHBORHOODS
         THEN Raise("ValueError", <<>>)
         ELSE Return(TiledRasterRDD(self.rdd_type, h),
                     <<Req("focal", self.srdd,
                           <<operation, neighborhood, PyFloat(ParamOrZero(param_1)),
                             PyFloat(ParamOrZero(param_2)),
                             PyFloat(ParamOrZero(param_3))>>)>>)
    ELSE IF (~Truthy(neighborhood) /\ operation.s = SLOPE) \/ operation.s = ASPECT
    THEN Return(TiledRasterRDD(self.rdd_type, h),
                <<Req("focal", self.srdd,
                      <<operation, StrV(SQUARE), FloatV(2), FloatV(0), FloatV(0)>>)>>)
    ELSE Raise("ValueError", <<>>)

\* _process_operation that compares the rdd_type of the operands and not their layout.
process_operation_no_layout_check(self, value, operation, h) ==
    IF value.t \in {"int", "float"}
    THEN Return(TiledRasterRDD(self.rdd_type, h),
                <<Req(operation, self.srdd, <<value>>)>>)
    ELSE IF value.t = "TiledRasterRDD"
    THEN IF self.rdd_type # value.rdd_type
         THEN Raise("ValueError", <<>>)
         ELSE Return(TiledRasterRDD(self.rdd_type, h),
                     <<Req(operation, self.srdd, <<Srdd(value.srdd)>>)>>)
    ELSE IF value.t = "list"
    THEN Return(TiledRasterRDD(self.rdd_type, h),
                <<Req(operation, self.srdd,
                      <<List([k \in DOMAIN value.items |-> Srdd(value.items[k].srdd)])>>)>>)
    ELSE Raise("TypeError", <<>>)

\* TiledRasterRDD._process_operation; operation is the engine method bound by the caller.
process_operation(self, value, operation, h) ==
    IF value.t \in {"int", "float"}
    THEN Return(TiledRasterRDD(self.rdd_type, h),
                <<Req(operation, self.srdd, <<value>>)>>)
    ELSE IF value.t = "TiledRasterRDD"
    THEN IF self.rdd_type # value.rdd_type
         THEN Raise("ValueError", <<>>)
         ELSE LET fetched == <<LayerMetadataReq(self), LayerMetadataReq(value)>>
              IN  IF layer_metadata(self).layoutDefinition.tileLayout
                     # layer_metadata(value).layoutDefinition.tileLayout
                  THEN Raise("ValueError", fetched)
                  ELSE Return(TiledRasterRDD(self.rdd_type, h),
                              fetched \o <<Req(operation, self.srdd, <<Srdd(value.srdd)>>)>>)
    ELSE IF value.t = "list"
    THEN Return(TiledRasterRDD(self.rdd_type, h),
                <<Req(operation, self.srdd,
                      <<List([k \in DOMAIN value.items |-> Srdd(value.items[k].srdd)])>>)>>)
    ELSE Raise("TypeError", <<>>)

\* __add__ .. __rtruediv__: the engine method each operator binds.
LocalOperation(dunder) ==
    CASE dunder = "__add__" -> "localAdd"
      [] dunder = "__radd__" -> "localAdd"
      [] dunder = "__sub__" -> "localSubtract"
      [] dunder = "__rsub__" -> "reverseLocalSubtract"
      [] dunder = "__mul__" -> "localMultiply"
      [] dunder = "__rmul__" -> "localMultiply"
      [] dunder = "__truediv__" -> "localDivide"
      [] dunder = "__rtruediv__" -> "reverseLocalDivide"
Dunders ==
    {"__add__", "__radd__", "__sub__", "__rsub__", "__mul__", "__rmul__",
     "__truediv__", "__rtruediv__"}

(***************************************************************************)
(* _reclassify.  A dict is a sequence of <<key, value>> entries in         *)
(* iteration order whose keys are pairwise unequal.                        *)
(***************************************************************************)
NODATAINT == -2147483647 - 1
LESSTHANOREQUALTO == "LessThanOrEqualTo"

Type(name) == [t |-> "type", name |-> name]

\* isinstance(x, ty) for ty one of int, float, str, tuple.
IsInstance(x, ty) == x.t = ty.name

\* a == b for two Python values; an int equals the float of the same value.
PyEq(a, b) ==
    IF a.t = "int" /\ b.t = "float" THEN "h" \in DOMAIN b /\ b.h = 2 * a.i
    ELSE IF a.t = "float" /\ b.t = "int" THEN "h" \in DOMAIN a /\ a.h = 2 * b.i
    ELSE IF "nan" \in DOMAIN a \/ "nan" \in DOMAIN b THEN FALSE
    ELSE a = b

\* d[k] = v
DictSet(d, k, v) ==
    IF \E j \in DOMAIN d : PyEq(d[j][1], k)
    THEN [j \in DOMAIN d |-> IF PyEq(d[j][1], k) THEN <<d[j][1], v>> ELSE d[j]]
    ELSE Append(d, <<k, v>>)

\* Whether `for k in x` is defined.
IsIterable(x) == x.t \in {"tuple", "list"}

\* SetEach that stores only the first break value of a group.
SetEachFirstOnly(d, items, j, val) ==
    IF j > Len(items) THEN d ELSE DictSet(d, items[j], val)

\* for k in key: new_dict[k] = val, from the j-th element of key on.
RECURSIVE SetEach(_, _, _, _)
SetEach(d, items, j, val) ==
    IF j > Len(items) THEN d ELSE SetEach(DictSet(d, items[j], val), items, j + 1, val)

\* The loop of _reclassify over value_map.items() from entry j on; acc is new_dict.
\* The result is new_dict, or "TypeError" when a key can be neither kept nor iterated.
RECURSIVE ExpandKeys(_, _, _, _)
ExpandKeys(value_map, j, data_type, acc) ==
    IF j > Len(value_map) THEN [exc |-> NoExc, new_dict |-> acc]
    ELSE LET key == value_map[j][1]
             value == value_map[j][2]
         IN  IF ~IsInstance(key, data_type)
             THEN IF ~IsIterable(key)
                  THEN [exc |-> "TypeError", new_dict |-> acc]
                  ELSE ExpandKeys(value_map, j + 1, data_type,
                                  SetEach(acc, key.items, 1, value))
             ELSE ExpandKeys(value_map, j + 1, data_type, DictSet(acc, key, value))

\* A dict as the engine receives it: a mapping, whatever the order of insertion.
DictV(d) == [t |-> "dict", items |-> {d[j] : j \in DOMAIN d}]

\* The no-data argument of the integer variant.
IntNoData(replace_nodata_with) ==
    IF ~Truthy(replace_nodata_with) THEN IntV(NODATAINT) ELSE replace_nodata_with

\* The no-data argument of the floating-point variant.
DoubleNoData(replace_nodata_with) ==
    IF ~Truthy(replace_nodata_with) THEN NaN ELSE replace_nodata_with

\* ReclassifyMethod that always picks the integer variant.
ReclassifyMethodIntOnly(data_type) == "reclassify"

\* Which engine method _reclassify calls.
ReclassifyMethod(data_type) ==
    IF data_type.name = "int" THEN "reclassify" ELSE "reclassifyDouble"

\* _reclassify(srdd, ...); h is the handle the engine answers with.
reclassify_helper(srdd, value_map, data_type, boundary_strategy, replace_nodata_with, h) ==
    LET e == ExpandKeys(value_map, 1, data_type, <<>>)
    IN  IF e.exc # NoExc
        THEN Raise(e.exc, <<>>)
        ELSE IF data_type.name = "int"
        THEN Return(h, <<Req(ReclassifyMethod(data_type), srdd,
                             <<DictV(e.new_dict), boundary_strategy,
                               IntNoData(replace_nodata_with)>>)>>)
        ELSE Return(h, <<Req(ReclassifyMethod(data_type), srdd,
                             <<DictV(e.new_dict), boundary_strategy,
                               DoubleNoData(replace_nodata_with)>>)>>)

\* RasterRDD.reclassify
RasterReclassify(self, value_map, data_type, boundary_strategy, replace_nodata_with, h) ==
    LET r == reclassify_helper(self.srdd, value_map, data_type, boundary_strategy,
                               replace_nodata_with, h)
    IN  IF r.exc # NoExc THEN r ELSE Return(RasterRDD(self.rdd_type, r.ret), r.calls)

\* TiledRasterRDD.reclassify
TiledReclassify(self, value_map, data_type, boundary_strategy, replace_nodata_with, h) ==
    LET r == reclassify_helper(self.srdd, value_map, data_type, boundary_strategy,
                               replace_nodata_with, h)
    IN  IF r.exc # NoExc THEN r ELSE Return(TiledRasterRDD(self.rdd_type, r.ret), r.calls)

(***************************************************************************)
(* The program's state: six wrappers built by from_numpy_rdd, the engine's *)
(* record of each handle, the last call made, and (for reclassify) the    *)
(* call the client has prepared and is about to make.                      *)
(***************************************************************************)
InitWrappers ==
    << RasterRDD(SPATIAL, 1), RasterRDD(SPACETIME, 2),
       TiledRasterRDD(SPATIAL, 3), TiledRasterRDD(SPATIAL, 4),
       TiledRasterRDD(SPACETIME, 5), TiledRasterRDD(SPATIAL, 6),
       TiledRasterRDD(SPATIAL, 7) >>
InitEngine ==
    [h \in 1..7 |->
        [md |-> CASE h \in {1, 2} -> None
                  [] h \in {3, 5, 6} -> MetaA
                  [] h = 4 -> MetaB
                  [] h = 7 -> MetaC,
         storage |-> None]]

Rasters == {w \in DOMAIN wrappers : wrappers[w].t = "RasterRDD"}
Tileds == {w \in DOMAIN wrappers : wrappers[w].t = "TiledRasterRDD"}

NoCall == [op |-> "init", self |-> 0, args |-> <<>>, exc |-> NoExc, calls |-> <<>>, ret |-> None]

\* A call of method op on wrapper w with arguments args and outcome out.
Call(op, w, args, out) ==
    /\ last' = [op |-> op, self |-> w, args |-> args,
                exc |-> out.exc, calls |-> out.calls, ret |-> out.ret]
    /\ UNCHANGED <<wrappers, engine, request>>

Init ==
    /\ wrappers = InitWrappers
    /\ engine = InitEngine
    /\ last = NoCall
    /\ request = None

(***************************************************************************)
(* Inputs.                                                                 *)
(***************************************************************************)
ResampleInputs == {StrV(NEARESTNEIGHBOR), StrV("Bilinear"), StrV("nearest")}
ExtentInputs == {None, ExtentA}
LayoutInputs == {None, LayoutB}
CrsInputs == {None, IntV(4326), IntV(0), StrV("EPSG:3857")}
TileSizeInputs == {IntV(256)}
CellTypeInputs == {StrV("int16"), StrV("float64"), StrV("int17")}

\* Largest tile coordinate asked of lookup.
MaxCoord == 3
PyramidHandles == {<<101>>, <<101, 102>>}
TileInputs == {<<>>, <<[t |-> "bytes", id |-> 1]>>}
OperationInputs == {StrV("Sum"), StrV(SLOPE), StrV(ASPECT), StrV("Blur")}
NeighborhoodInputs ==
    {None, Neighborhood(StrV("annulus"), FloatV(2), FloatV(4), FloatV(0)),
     StrV(SQUARE), StrV("hexagon"), IntV(3)}
ParamInputs == {None, IntV(1)}
OperandInputs ==
    {IntV(2), FloatV(3), StrV("2"), wrappers[1], List(<<wrappers[3], wrappers[4]>>)}
        \cup {wrappers[w] : w \in Tileds}

RddTypeInputs == {StrV(SPATIAL), StrV(SPACETIME)}
GeometryInputs ==
    {StrV("POLYGON ((0 0, 4 0, 4 4, 0 0))"),
     [t |-> "Polygon", wkt |-> "POLYGON ((0 0, 2 0, 2 2, 0 0))"], IntV(7)}
InstantInputs == {None, IntV(0), IntV(5)}

DoRasterConvertDataType ==
    \E w \in Rasters, ct \in CellTypeInputs, h \in NewHandles :
        Call("RasterRDD.convert_data_type", w, <<ct>>, RasterConvertDataType(wrappers[w], ct, h))

DoCollectMetadata ==
    \E w \in Rasters, e \in ExtentInputs, l \in LayoutInputs, c \in CrsInputs,
       ts \in TileSizeInputs, md \in Metas :
        Call("RasterRDD.collect_metadata", w, <<e, l, c, ts>>,
             collect_metadata(wrappers[w], e, l, c, ts, md))

DoRasterReproject ==
    \E w \in Rasters, c \in CrsInputs \ {None}, rm \in ResampleInputs, h \in NewHandles :
        Call("RasterRDD.reproject", w, <<c, rm>>, RasterReproject(wrappers[w], c, rm, h))

DoCutTiles ==
    \E w \in Rasters, md \in Metas, rm \in ResampleInputs, h \in NewHandles :
        Call("RasterRDD.cut_tiles", w, <<md, rm>>, cut_tiles(wrappers[w], md, rm, h))

DoRasterTileToLayout ==
    \E w \in Rasters, md \in Metas, rm \in ResampleInputs, h \in NewHandles :
        Call("RasterRDD.tile_to_layout", w, <<md, rm>>, RasterTileToLayout(wrappers[w], md, rm, h))

DoToTiledLayer ==
    \E w \in Rasters, e \in ExtentInputs, l \in LayoutInputs, c \in CrsInputs,
       ts \in TileSizeInputs, rm \in ResampleInputs, md \in Metas, h \in NewHandles :
        Call("RasterRDD.to_tiled_layer", w, <<e, l, c, ts, rm>>,
             to_tiled_layer(wrappers[w], e, l, c, ts, rm, md, h))

DoRasterize ==
    \E rt \in RddTypeInputs, g \in GeometryInputs, c \in CrsInputs \ {None},
       i \in InstantInputs, h \in NewHandles :
        Call("TiledRasterRDD.rasterize", 0,
             <<rt, g, ExtentA, c, IntV(4), IntV(4), IntV(1), i>>,
             rasterize(rt, g, ExtentA, c, IntV(4), IntV(4), IntV(1), i, h))

DoTiledConvertDataType ==
    \E w \in Tileds, ct \in CellTypeInputs, h \in NewHandles :
        Call("TiledRasterRDD.convert_data_type", w, <<ct>>, TiledConvertDataType(wrappers[w], ct, h))

DoTiledReproject ==
    \E w \in Tileds, c \in CrsInputs \ {None}, e \in ExtentInputs, l \in LayoutInputs,
       ts \in TileSizeInputs, rm \in ResampleInputs, h \in NewHandles :
        Call("TiledRasterRDD.reproject", w, <<c, e, l, StrV(FLOAT), ts, FloatV(1), rm>>,
             TiledReproject(wrappers[w], c, e, l, StrV(FLOAT), ts, FloatV(1), rm, h))

DoLookup ==
    \E w \in Tileds, c \in 0..MaxCoord, r \in 0..MaxCoord, tiles \in TileInputs :
        Call("TiledRasterRDD.lookup", w, <<IntV(c), IntV(r)>>, lookup(wrappers[w], IntV(c), IntV(r), tiles))

DoTiledTileToLayout ==
    \E w \in Tileds, l \in LayoutInputs \ {None}, rm \in ResampleInputs, h \in NewHandles :
        Call("TiledRasterRDD.tile_to_layout", w, <<l, rm>>, TiledTileToLayout(wrappers[w], l, rm, h))

DoPyramid ==
    \E w \in Tileds, rm \in ResampleInputs, hs \in PyramidHandles :
        Call("TiledRasterRDD.pyramid", w, <<IntV(2), IntV(1), rm>>,
             pyramid(wrappers[w], IntV(2), IntV(1), rm, hs))

DoFocal ==
    \E w \in Tileds, o \in OperationInputs, n \in NeighborhoodInputs,
       p \in ParamInputs, h \in NewHandles :
        Call("TiledRasterRDD.focal", w, <<o, n, p, None, None>>, focal(wrappers[w], o, n, p, None, None, h))

DoLocal ==
    \E w \in Tileds, d \in Dunders, v \in OperandInputs, h \in NewHandles :
        Call(d, w, <<v>>, process_operation(wrappers[w], v, LocalOperation(d), h))

Next ==
    \/ DoRasterConvertDataType
    \/ DoCollectMetadata
    \/ DoRasterReproject
    \/ DoCutTiles
    \/ DoRasterTileToLayout
    \/ DoToTiledLayer
    \/ DoRasterize
    \/ DoTiledConvertDataType
    \/ DoTiledReproject
    \/ DoLookup
    \/ DoTiledTileToLayout
    \/ DoPyramid
    \/ DoFocal
    \/ DoLocal

Spec == Init /\ [][Next]_vars

(***************************************************************************)
(* reclassify, on inputs the client has prepared: Init draws the call and  *)
(* the action makes it.                                                    *)
(***************************************************************************)
\* Largest number of entries of a value_map.
MaxEntries == 2
BreakKeys ==
    {IntV(1), IntV(2), FloatV(2), FloatV(3),
     Tuple(<<IntV(1), IntV(2)>>), Tuple(<<IntV(2)>>),
     Tuple(<<FloatV(2), FloatV(3)>>), Tuple(<<>>)}
ClassValues == {IntV(9), IntV(5)}
DictEntries == BreakKeys \X ClassValues
ValueMaps ==
    {vm \in UNION {[1..n -> DictEntries] : n \in 0..MaxEntries} :
        \A i, j \in DOMAIN vm : i # j => ~PyEq(vm[i][1], vm[j][1])}
DataTypeInputs == {Type("int"), Type("float"), Type("str")}
BoundaryInputs == {StrV(LESSTHANOREQUALTO), StrV("GreaterThan")}
NoDataInputs == {None, IntV(0), IntV(7), FloatV(0), FloatV(5)}
ReclassifySelves == {1, 3}

ReclassifyRequests ==
    {[t |-> "reclassify", self |-> w, value_map |-> vm, data_type |-> dt,
      boundary_strategy |-> bs, replace_nodata_with |-> rn] :
        w \in ReclassifySelves, vm \in ValueMaps, dt \in DataTypeInputs,
        bs \in BoundaryInputs, rn \in NoDataInputs}

InitReclassify ==
    /\ wrappers = InitWrappers
    /\ engine = InitEngine
    /\ last = NoCall
    /\ request \in ReclassifyRequests

Reclassified(out) ==
    /\ last' = [op |-> "reclassify", self |-> request.self,
                args |-> <<request.value_map, request.data_type,
                           request.boundary_strategy, request.replace_nodata_with>>,
                exc |-> out.exc, calls |-> out.calls, ret |-> out.ret]
    /\ request' = None
    /\ UNCHANGED <<wrappers, engine>>

DoRasterReclassify ==
    /\ request.t = "reclassify"
    /\ request.self \in Rasters
    /\ \E h \in NewHandles :
        Reclassified(RasterReclassify(wrappers[request.self], request.value_map,
                                      request.data_type, request.boundary_strategy,
                                      request.replace_nodata_with, h))

DoTiledReclassify ==
    /\ request.t = "reclassify"
    /\ request.self \in Tileds
    /\ \E h \in NewHandles :
        Reclassified(TiledReclassify(wrappers[request.self], request.value_map,
                                     request.data_type, request.boundary_strategy,
                                     request.replace_nodata_with, h))

NextReclassify == DoRasterReclassify \/ DoTiledReclassify

SpecReclassify == InitReclassify /\ [][NextReclassify]_vars

(***************************************************************************)
(* Caching: cache, persist and unpersist on two wrappers, between other    *)
(* operations.  The engine takes or refuses each storage request.          *)
(***************************************************************************)
CacheSelves == {1, 3}
StorageLevelInputs == {StorageLevel(MEMORY_ONLY), StorageLevel("MEMORY_AND_DISK"), StrV(MEMORY_ONLY)}

\* The engine's storage level of a collection after an accepted request.
Stored(eng, req) ==
    [eng EXCEPT ![req.h].storage =
        IF req.m = "persist" THEN req.a[1] ELSE None]

CacheCall(op, w, args, out) ==
    /\ last' = [op |-> op, self |-> w, args |-> args,
                exc |-> out.exc, calls |-> out.calls, ret |-> out.ret]
    /\ wrappers' = [wrappers EXCEPT ![w] = out.self]
    /\ engine' = IF out.exc = NoExc THEN Stored(engine, out.calls[1]) ELSE engine
    /\ UNCHANGED request

DoCache ==
    \E w \in CacheSelves, accepted \in BOOLEAN :
        CacheCall("cache", w, <<>>, cache(wrappers[w], accepted))

DoPersist ==
    \E w \in CacheSelves, sl \in StorageLevelInputs, accepted \in BOOLEAN :
        CacheCall("persist", w, <<sl>>, persist(wrappers[w], sl, accepted))

DoUnpersist ==
    \E w \in CacheSelves, accepted \in BOOLEAN :
        CacheCall("unpersist", w, <<>>, unpersist(wrappers[w], accepted))

NextCache ==
    \/ DoCache
    \/ DoPersist
    \/ DoUnpersist
    \/ DoRasterConvertDataType
    \/ DoTiledConvertDataType
    \/ DoPyramid
    \/ DoRasterize

SpecCache == Init /\ [][NextCache]_vars

(***************************************************************************)
(* The engine's tiling, as the specification describes it: rasters of unit *)
(* cell size are cut against a layout and merged per key.                  *)
(***************************************************************************)
Min(S) == CHOOSE x \in S : \A y \in S : x <= y
Max(S) == CHOOSE x \in S : \A y \in S : y <= x

\* The union bounding extent of the extents of a collection's records.
UnionExtent(records) ==
    LET es == {records[j].extent : j \in DOMAIN records}
    IN  Extent(Min({e.xmin : e \in es}), Min({e.ymin : e \in es}),
               Max({e.xmax : e \in es}), Max({e.ymax : e \in es}))

CeilDiv(a, b) == (a + b - 1) \div b

\* The tile size the engine reads from its decimal string.
ParseTileSize(text) == CHOOSE n \in 1..256 : PyStr(IntV(n)) = text

\* The key of the n-th tile of a layout, row by row from the top left.
KeyAt(n, tl) == Key((n - 1) % tl.layoutCols, (n - 1) \div tl.layoutCols)

\* Whether extent e and tile key of layout definition ld share more than an edge.
Intersects(e, ld, key) ==
    LET le == ld.extent
        lc == ld.tileLayout.layoutCols
        lr == ld.tileLayout.layoutRows
        W == le.xmax - le.xmin
        H == le.ymax - le.ymin
    IN  /\ e.xmin * lc < le.xmin * lc + (key.col + 1) * W
        /\ e.xmax * lc > le.xmin * lc + key.col * W
        /\ e.ymin * lr < le.ymax * lr - key.row * H
        /\ e.ymax * lr > le.ymax * lr - (key.row + 1) * H

\* One record per layout tile that raster rec intersects.
CutOne(rec, ld) ==
    LET tl == ld.tileLayout
        all == [n \in 1..(tl.layoutCols * tl.layoutRows) |->
                   [key |-> KeyAt(n, tl), sources |-> rec.sources]]
        hit(r) == Intersects(rec.extent, ld, r.key)
    IN  SelectSeq(all, hit)

\* Cut: every raster against every tile it intersects, duplicates kept.
RECURSIVE CutTiles(_, _, _)
CutTiles(records, j, ld) ==
    IF j > Len(records) THEN <<>>
    ELSE CutOne(records[j], ld) \o CutTiles(records, j + 1, ld)

\* Whether tile a of layout old and tile b of layout new, over one extent, share
\* more than an edge.
TilesIntersect(a, old, b, new) ==
    /\ a.col * new.layoutCols < (b.col + 1) * old.layoutCols
    /\ (a.col + 1) * new.layoutCols > b.col * old.layoutCols
    /\ a.row * new.layoutRows < (b.row + 1) * old.layoutRows
    /\ (a.row + 1) * new.layoutRows > b.row * old.layoutRows

\* One record per tile of layout new that tile rec of layout old intersects.
RecutOne(rec, old, new) ==
    LET all == [n \in 1..(new.layoutCols * new.layoutRows) |->
                   [key |-> KeyAt(n, new), sources |-> rec.sources]]
        hit(r) == TilesIntersect(rec.key, old, r.key, new)
    IN  SelectSeq(all, hit)

\* Cut the tiles of a tiled layer against another tile layout of its extent.
RECURSIVE RecutTiles(_, _, _, _)
RecutTiles(records, j, old, new) ==
    IF j > Len(records) THEN <<>>
    ELSE RecutOne(records[j], old, new) \o RecutTiles(records, j + 1, old, new)

\* Merge one fragment into the rasters merged so far.
MergeInto(acc, rec) ==
    IF \E i \in DOMAIN acc : acc[i].key = rec.key
    THEN [i \in DOMAIN acc |->
             IF acc[i].key = rec.key
             THEN [acc[i] EXCEPT !.sources = @ \cup rec.sources] ELSE acc[i]]
    ELSE Append(acc, rec)

\* Merge: all fragments of one key become one raster.
RECURSIVE Merge(_, _, _)
Merge(cut, j, acc) ==
    IF j > Len(cut) THEN acc ELSE Merge(cut, j + 1, MergeInto(acc, cut[j]))

\* The key bounds of a collection of keyed records.
KeyBounds(records) ==
    LET ks == {records[j].key : j \in DOMAIN records}
    IN  [minKey |-> Key(Min({k.col : k \in ks}), Min({k.row : k \in ks})),
         maxKey |-> Key(Max({k.col : k \in ks}), Max({k.row : k \in ks}))]

\* The metadata record of a layer: data extent, key bounds, layout definition.
LayerMetadata(ext, ld, records) ==
    [t |-> "dict", extent |-> ext,
     bounds |-> KeyBounds(Merge(CutTiles(records, 1, ld), 1, <<>>)),
     layoutDefinition |-> ld]

\* The local layout for tile size t: whole tiles from the top left of the data.
LocalLayout(ext, t) ==
    LET lc == CeilDiv(ext.xmax - ext.xmin, t)
        lr == CeilDiv(ext.ymax - ext.ymin, t)
    IN  [extent |-> Extent(ext.xmin, ext.ymax - lr * t, ext.xmin + lc * t, ext.ymax),
         tileLayout |-> TileLayout(lc, lr, t, t)]

\* The world in degrees, for rasters in EPSG:4326.
WorldExtent == Extent(-180, -90, 180, 90)

\* The least zoom level at which a tile of t pixels has cells no wider than a unit.
RECURSIVE ZoomFrom(_, _)
ZoomFrom(z, t) ==
    IF (2 ^ z) * t >= WorldExtent.xmax - WorldExtent.xmin THEN z ELSE ZoomFrom(z + 1, t)

\* The global layout for tile size t: 2^zoom by 2^zoom tiles over the world.
GlobalLayout(t) ==
    LET z == ZoomFrom(0, t)
    IN  [extent |-> WorldExtent, tileLayout |-> TileLayout(2 ^ z, 2 ^ z, t, t)]

\* The engine's answer to collectMetadata on a collection.
EngineCollectMetadata(col, a) ==
    IF Len(a) = 3
    THEN LayerMetadata(UnionExtent(col.records), [extent |-> a[1], tileLayout |-> a[2]],
                       col.records)
    ELSE LET ext == UnionExtent(col.records)
         IN  LayerMetadata(ext, LocalLayout(ext, ParseTileSize(a[1])), col.records)

\* The collection the engine creates for a cutTiles or tileToLayout request.
EngineTile(col, req) ==
    IF req.a[1].t = "json"
    THEN LET md == JsonLoads(req.a[1])
             cut == CutTiles(col.records, 1, md.layoutDefinition)
         IN  [md |-> md, storage |-> None, zoom |-> None,
              records |-> IF req.m = "cutTiles" THEN cut ELSE Merge(cut, 1, <<>>)]
    ELSE IF req.a[1].t = "GlobalLayout"
    THEN LET ld == GlobalLayout(req.a[1].tile_size)
         IN  [md |-> LayerMetadata(UnionExtent(col.records), ld, col.records),
              storage |-> None, zoom |-> ZoomFrom(0, req.a[1].tile_size),
              records |-> Merge(CutTiles(col.records, 1, ld), 1, <<>>)]
    ELSE LET ld == [extent |-> col.md.layoutDefinition.extent, tileLayout |-> req.a[1]]
             merged == Merge(RecutTiles(col.records, 1, col.md.layoutDefinition.tileLayout,
                                        req.a[1]), 1, <<>>)
         IN  [md |-> [col.md EXCEPT !.layoutDefinition = ld, !.bounds = KeyBounds(merged)],
              storage |-> None, zoom |-> None, records |-> merged]

\* tile_to_layout with a global layout of tile_size pixels; zoom is the zoom
\* level the engine reports for the new layer.
tile_to_global_layout(self, tile_size, resample_method, h, zoom) ==
    IF resample_method.s \notin RESAMPLE_METHODS
    THEN Raise("ValueError", <<>>)
    ELSE Return([TiledRasterRDD(self.rdd_type, h) EXCEPT !.is_cached = FALSE] @@
                    [zoom_level |-> zoom],
                <<Req("tileToLayout", self.srdd,
                      <<[t |-> "GlobalLayout", tile_size |-> tile_size.i], resample_method>>)>>)

(***************************************************************************)
(* Tiling a collection of rasters: the metadata is collected, the rasters  *)
(* are cut and tiled against it, and the tiled layer is tiled again.       *)
(***************************************************************************)
\* A raster of cols x rows unit cells of value v with its lower left at (x, y).
make_raster(x, y, v, cols, rows) ==
    [extent |-> Extent(x, y, x + cols, y + rows), sources |-> {v}]

layers == <<make_raster(0, 0, 1, 4, 4), make_raster(3, 2, 2, 4, 4), make_raster(6, 0, 3, 4, 4)>>

\* Largest number of rasters in a collection.
MaxLayers == 3
RasterInputs == {layers[k] : k \in DOMAIN layers} \cup {make_raster(1, 1, 4, 2, 2)}
LayerInputs ==
    {c \in UNION {[1..n -> RasterInputs] : n \in 1..MaxLayers} :
        \A i, j \in DOMAIN c : i < j => Max(c[i].sources) < Max(c[j].sources)}
TilingSizeInputs == {IntV(3), IntV(5)}

TilingRequests ==
    {[t |-> "tiling", layers |-> c, tile_size |-> ts, metadata |-> None,
      cut |-> None, tiled |-> None] : c \in LayerInputs, ts \in TilingSizeInputs}

InitTiling ==
    /\ request \in TilingRequests
    /\ wrappers = <<RasterRDD(SPATIAL, 1)>>
    /\ engine = <<[md |-> None, storage |-> None, zoom |-> None, records |-> request.layers]>>
    /\ last = NoCall

TilingCall(op, w, args, out) ==
    last' = [op |-> op, self |-> w, args |-> args,
             exc |-> out.exc, calls |-> out.calls, ret |-> out.ret]

\* metadata = layer.collect_metadata(...), by tile size or by extent and layout.
DoTilingCollectMetadata ==
    /\ request.t = "tiling" /\ request.metadata = None
    /\ \E el \in {<<None, None>>, <<ExtentA, LayoutB>>, <<ExtentA, None>>} :
        LET self == wrappers[1]
            sent == collect_metadata(self, el[1], el[2], None, request.tile_size, None)
            md == IF sent.exc = NoExc
                  THEN EngineCollectMetadata(engine[self.srdd], sent.calls[1].a) ELSE None
            out == collect_metadata(self, el[1], el[2], None, request.tile_size, md)
        IN  /\ TilingCall("RasterRDD.collect_metadata", 1,
                          <<el[1], el[2], None, request.tile_size>>, out)
            /\ request' = [request EXCEPT !.metadata = out.ret]
            /\ UNCHANGED <<wrappers, engine>>

\* A call that makes the engine create a collection and returns its wrapper.
TilingCreate(op, w, args, out) ==
    /\ TilingCall(op, w, args, out)
    /\ IF out.exc = NoExc
       THEN /\ engine' = Append(engine, EngineTile(engine[wrappers[w].srdd],
                                                   out.calls[Len(out.calls)]))
            /\ wrappers' = Append(wrappers, out.ret)
       ELSE UNCHANGED <<wrappers, engine>>

DoTilingCutTiles ==
    /\ request.t = "tiling" /\ request.metadata # None /\ request.cut = None
    /\ \E rm \in ResampleInputs :
        LET out == cut_tiles(wrappers[1], request.metadata, rm, Len(engine) + 1)
        IN  /\ TilingCreate("RasterRDD.cut_tiles", 1, <<request.metadata, rm>>, out)
            /\ request' = [request EXCEPT !.cut = out.ret]

DoTilingTileToLayout ==
    /\ request.t = "tiling" /\ request.metadata # None /\ request.tiled = None
    /\ \E rm \in ResampleInputs :
        LET out == RasterTileToLayout(wrappers[1], request.metadata, rm, Len(engine) + 1)
        IN  /\ TilingCreate("RasterRDD.tile_to_layout", 1, <<request.metadata, rm>>, out)
            /\ request' = [request EXCEPT !.tiled = out.ret]

\* tiled.tile_to_layout(layout), with the layer's own layout or a single tile.
DoTilingTileAgain ==
    /\ request.t = "tiling" /\ request.tiled # None /\ Len(wrappers) < 4
    /\ last.op # "TiledRasterRDD.tile_to_layout"
    /\ \E w \in {k \in DOMAIN wrappers : wrappers[k] = request.tiled} :
       \E l \in {engine[wrappers[w].srdd].md.layoutDefinition.tileLayout,
                 TileLayout(1, 1, 16, 16)} :
        LET out == TiledTileToLayout(wrappers[w], l, StrV(NEARESTNEIGHBOR), Len(engine) + 1)
        IN  /\ TilingCreate("TiledRasterRDD.tile_to_layout", w,
                            <<l, StrV(NEARESTNEIGHBOR)>>, out)
            /\ UNCHANGED request

DoTilingGlobal ==
    /\ request.t = "tiling" /\ last.op = "init"
    /\ LET sent == tile_to_global_layout(wrappers[1], request.tile_size,
                                         StrV(NEARESTNEIGHBOR), Len(engine) + 1, None)
           col == EngineTile(engine[1], sent.calls[1])
           out == tile_to_global_layout(wrappers[1], request.tile_size,
                                        StrV(NEARESTNEIGHBOR), Len(engine) + 1, col.zoom)
       IN  /\ TilingCreate("RasterRDD.tile_to_layout(GlobalLayout)", 1,
                           <<request.tile_size, StrV(NEARESTNEIGHBOR)>>, out)
           /\ UNCHANGED request

NextTiling ==
    \/ DoTilingCollectMetadata
    \/ DoTilingCutTiles
    \/ DoTilingTileToLayout
    \/ DoTilingTileAgain
    \/ DoTilingGlobal

SpecTiling == InitTiling /\ [][NextTiling]_vars

(***************************************************************************)
(* Properties.                                                             *)
(***************************************************************************)
Self == wrappers[last.self]
NoEngineCall == last.calls = <<>>
Failed == last.exc # NoExc
Sent(m) == \E k \in DOMAIN last.calls : last.calls[k].m = m

\* C1: in RasterRDD.collect_metadata and TiledRasterRDD.reproject, a call that
\* supplies exactly one of extent/layout (the other None) fails and sends nothing
\* to the engine, with TypeError whenever the other arguments are valid; a call
\* that supplies both or neither raises no TypeError.
C1_PartialLayoutRejected ==
    /\ last.op = "RasterRDD.collect_metadata" =>
          LET partial == (last.args[1] = None) # (last.args[2] = None)
          IN  /\ partial => last.exc = "TypeError" /\ NoEngineCall
              /\ ~partial => last.exc = NoExc /\ Sent("collectMetadata")
    /\ last.op = "TiledRasterRDD.reproject" =>
          LET partial == (last.args[2] = None) # (last.args[3] = None)
          IN  /\ partial => Failed /\ NoEngineCall
              /\ partial /\ last.args[7].s \in RESAMPLE_METHODS => last.exc = "TypeError"
              /\ ~partial => last.exc # "TypeError"
              /\ ~partial /\ last.args[7].s \in RESAMPLE_METHODS =>
                    last.exc = NoExc /\ Sent("reproject")

C1_Witness ==
    /\ last.op = "RasterRDD.collect_metadata"
    /\ last.args[1] # None
    /\ last.args[2] = None
    /\ last.exc = "TypeError"

\* The resample_method argument of the last call, for the methods that take one.
ResampleOps ==
    {"RasterRDD.reproject", "RasterRDD.cut_tiles", "RasterRDD.tile_to_layout",
     "TiledRasterRDD.reproject", "TiledRasterRDD.tile_to_layout", "TiledRasterRDD.pyramid"}
ResampleArg ==
    CASE last.op = "TiledRasterRDD.reproject" -> last.args[7]
      [] last.op = "TiledRasterRDD.pyramid" -> last.args[3]
      [] OTHER -> last.args[2]

\* C2: an unrecognized resample_method in RasterRDD.reproject, cut_tiles,
\* tile_to_layout, TiledRasterRDD.reproject, tile_to_layout, pyramid, and an
\* unrecognized operation or string neighborhood in focal, makes the call raise
\* with no request sent to the engine and no wrapper returned.
C2_ValidateBeforeDispatch ==
    /\ last.op \in ResampleOps /\ ResampleArg.s \notin RESAMPLE_METHODS =>
          Failed /\ NoEngineCall /\ last.ret = None
    /\ last.op = "TiledRasterRDD.focal"
         /\ \/ last.args[1].s \notin OPERATIONS
            \/ last.args[2].t = "str" /\ last.args[2].s \notin NEIGHBORHOODS
         => Failed /\ NoEngineCall /\ last.ret = None

C2_Witness ==
    /\ last.op = "TiledRasterRDD.pyramid"
    /\ last.args[3].s \notin RESAMPLE_METHODS
    /\ last.exc = "ValueError"
    /\ NoEngineCall

\* C3: RasterRDD.to_tiled_layer with an unrecognized resample_method fails before
\* any request is sent to the engine.
C3_ToTiledLayerValidatesFirst ==
    last.op = "RasterRDD.to_tiled_layer" /\ last.args[5].s \notin RESAMPLE_METHODS =>
        Failed /\ NoEngineCall

\* C4: convert_data_type with a cell type outside CELL_TYPES fails, on a RasterRDD
\* and on a TiledRasterRDD, sends no convertDataType request and leaves the source
\* wrapper as it was.
C4_UnknownCellTypeRejected ==
    last.op \in {"RasterRDD.convert_data_type", "TiledRasterRDD.convert_data_type"}
      /\ last.args[1].s \notin CELL_TYPES =>
        /\ Failed
        /\ ~Sent("convertDataType")
        /\ wrappers[last.self] = InitWrappers[last.self]

\* C5: reclassify with a data_type that is neither int nor float fails before any
\* request is sent to the engine.
C5_ReclassifyDataTypeChecked ==
    last.op = "reclassify" /\ last.args[2].name \notin {"int", "float"} =>
        Failed /\ NoEngineCall

(***************************************************************************)
(* The expansion of a value_map, stated without the loop.                  *)
(***************************************************************************)
IsScalarOf(k, data_type) == k.t = data_type.name
IsGroupOf(k, data_type) ==
    k.t = "tuple" /\ \A j \in DOMAIN k.items : IsScalarOf(k.items[j], data_type)

\* value_map's keys are scalars of data_type or groups of such scalars.
WellTyped(value_map, data_type) ==
    /\ data_type.name \in {"int", "float"}
    /\ \A j \in DOMAIN value_map :
          IsScalarOf(value_map[j][1], data_type) \/ IsGroupOf(value_map[j][1], data_type)

\* The break values entry j of value_map stands for.
BreaksOf(value_map, j) ==
    LET key == value_map[j][1]
    IN  IF key.t = "tuple" THEN {key.items[i] : i \in DOMAIN key.items} ELSE {key}

\* Every group entry replaced by one entry per member, every scalar entry kept.
Expanded(value_map) ==
    UNION {{<<k, value_map[j][2]>> : k \in BreaksOf(value_map, j)} : j \in DOMAIN value_map}

\* No break value stands in two entries of value_map.
DisjointKeys(value_map) ==
    \A i, j \in DOMAIN value_map :
        i # j => BreaksOf(value_map, i) \cap BreaksOf(value_map, j) = {}

\* Each break value with the value of the last entry it stands in.
LastWins(value_map) ==
    {<<k, value_map[j][2]>> : <<k, j>> \in
        {kj \in UNION {BreaksOf(value_map, j) \X {j} : j \in DOMAIN value_map} :
            \A i \in DOMAIN value_map : kj[1] \in BreaksOf(value_map, i) => i <= kj[2]}}

ReclassifiedWellTyped ==
    last.op = "reclassify" /\ WellTyped(last.args[1], last.args[2])

\* C6 as claimed: for a value_map of scalar and group keys of data_type, the
\* mapping handed to the engine is the one with each group entry replaced by one
\* entry per member and every scalar entry kept, and holds no group key.
C6_KeyExpansionAsClaimed ==
    ReclassifiedWellTyped =>
        /\ last.exc = NoExc
        /\ Len(last.calls) = 1
        /\ last.calls[1].a[1].items = Expanded(last.args[1])
        /\ \A e \in last.calls[1].a[1].items : e[1].t # "tuple"

\* C6 as amended: the mapping handed to the engine gives each break value the
\* value of the last entry (in the iteration order of value_map) whose key is that
\* break value or a group holding it, and holds no group key; when no break value
\* stands in two keys this is the mapping with each group entry replaced by one
\* entry per member and every scalar entry kept.
C6_KeyExpansion ==
    ReclassifiedWellTyped =>
        /\ last.exc = NoExc
        /\ Len(last.calls) = 1
        /\ last.calls[1].a[1].items = LastWins(last.args[1])
        /\ \A e \in last.calls[1].a[1].items : e[1].t # "tuple"
        /\ DisjointKeys(last.args[1]) =>
              last.calls[1].a[1].items = Expanded(last.args[1])

C6_Witness ==
    /\ ReclassifiedWellTyped
    /\ last.args[1] = <<<<Tuple(<<IntV(1), IntV(2)>>), IntV(9)>>>>
    /\ last.calls[1].a[1].items = {<<IntV(1), IntV(9)>>, <<IntV(2), IntV(9)>>}

\* C7: _reclassify calls the engine's reclassify when data_type is int and
\* reclassifyDouble when it is float; with no replace_nodata_with the no-data
\* argument is NODATAINT for int and NaN for float; boundary_strategy is forwarded
\* unchanged.
C7_VariantSelection ==
    last.op = "reclassify" /\ last.exc = NoExc /\ last.args[2].name \in {"int", "float"} =>
        /\ Len(last.calls) = 1
        /\ last.calls[1].h = Self.srdd
        /\ last.calls[1].a[2] = last.args[3]
        /\ last.args[2].name = "int" =>
              /\ last.calls[1].m = "reclassify"
              /\ last.args[4] = None => last.calls[1].a[3] = IntV(NODATAINT)
        /\ last.args[2].name = "float" =>
              /\ last.calls[1].m = "reclassifyDouble"
              /\ last.args[4] = None => last.calls[1].a[3] = NaN

C7_Witness ==
    /\ last.op = "reclassify"
    /\ last.args[2].name = "float"
    /\ last.args[4] = None
    /\ last.args[3] = StrV("GreaterThan")
    /\ last.exc = NoExc
    /\ last.calls[1].m = "reclassifyDouble"

\* C8: a replace_nodata_with the caller supplies (any value of data_type, 0 and
\* 0.0 included) reaches the engine as the no-data replacement.
C8_SuppliedNoDataForwarded ==
    last.op = "reclassify" /\ last.exc = NoExc /\ last.args[4] # None
      /\ last.args[4].t = last.args[2].name =>
        last.calls[1].a[3] = last.args[4]

\* The key bounds and the tile layout the engine records for a wrapper.
BoundsOf(w) == engine[w.srdd].md.bounds
TileLayoutOf(w) == engine[w.srdd].md.layoutDefinition.tileLayout

\* C9: TiledRasterRDD.lookup(col, row) sends lookup to the engine iff the layer is
\* SPATIAL and minKey.col <= col <= maxKey.col and minKey.row <= row <= maxKey.row;
\* outside the bounds it raises IndexError and returns nothing; on a layer that is
\* not SPATIAL it raises before the metadata is fetched.
C9_LookupBounds ==
    last.op = "TiledRasterRDD.lookup" =>
        LET col == last.args[1].i
            row == last.args[2].i
            inside == /\ BoundsOf(Self).minKey.col <= col
                      /\ col <= BoundsOf(Self).maxKey.col
                      /\ BoundsOf(Self).minKey.row <= row
                      /\ row <= BoundsOf(Self).maxKey.row
        IN  /\ Sent("lookup") <=> (Self.rdd_type = SPATIAL /\ inside)
            /\ Sent("lookup") => last.exc = NoExc /\ last.ret.t = "list"
            /\ Self.rdd_type = SPATIAL /\ ~inside =>
                  last.exc = "IndexError" /\ last.ret = None
            /\ Self.rdd_type # SPATIAL => Failed /\ NoEngineCall

C9_Witness ==
    /\ last.op = "TiledRasterRDD.lookup"
    /\ Self.rdd_type = SPATIAL
    /\ last.args[1].i = BoundsOf(Self).maxKey.col
    /\ last.args[2].i = BoundsOf(Self).maxKey.row + 1
    /\ last.exc = "IndexError"

LocalMethods ==
    {"localAdd", "localSubtract", "localMultiply", "localDivide",
     "reverseLocalSubtract", "reverseLocalDivide"}

\* C10: a local arithmetic operation between two TiledRasterRDDs that differ in
\* rdd_type or in tile layout raises and sends no local operation to the engine;
\* when both agree the operation is sent once, on self's handle with the other
\* collection's handle, and the wrapper returned has self's rdd_type.
C10_LocalOperandsMatch ==
    last.op \in Dunders /\ last.args[1].t = "TiledRasterRDD" =>
        LET other == last.args[1]
            differ == \/ Self.rdd_type # other.rdd_type
                      \/ TileLayoutOf(Self) # TileLayoutOf(other)
            sent == {k \in DOMAIN last.calls : last.calls[k].m \in LocalMethods}
        IN  /\ differ => Failed /\ sent = {}
            /\ ~differ =>
                  /\ last.exc = NoExc
                  /\ sent = {Len(last.calls)}
                  /\ last.calls[Len(last.calls)].h = Self.srdd
                  /\ last.calls[Len(last.calls)].a = <<Srdd(other.srdd)>>
                  /\ last.ret.t = "TiledRasterRDD"
                  /\ last.ret.rdd_type = Self.rdd_type

C10_Witness ==
    /\ last.op = "__rsub__"
    /\ last.args[1].t = "TiledRasterRDD"
    /\ Self.rdd_type = last.args[1].rdd_type
    /\ TileLayoutOf(Self) # TileLayoutOf(last.args[1])
    /\ last.exc = "ValueError"

\* The CRS argument of the last call and the CRS the engine received in it.
CrsOps ==
    {"RasterRDD.collect_metadata", "RasterRDD.reproject", "TiledRasterRDD.reproject",
     "TiledRasterRDD.rasterize"}
CrsArg ==
    CASE last.op = "RasterRDD.collect_metadata" -> last.args[3]
      [] last.op = "TiledRasterRDD.rasterize" -> last.args[4]
      [] OTHER -> last.args[1]
CrsSent ==
    LET a == last.calls[1].a
    IN  CASE last.op = "RasterRDD.collect_metadata" -> a[Len(a)]
          [] last.op = "RasterRDD.reproject" -> a[1]
          [] last.op = "TiledRasterRDD.reproject" -> a[Len(a) - 1]
          [] last.op = "TiledRasterRDD.rasterize" -> a[4]

\* C11: in collect_metadata, RasterRDD.reproject, TiledRasterRDD.reproject and
\* rasterize an integer CRS reaches the engine as its decimal string and a string
\* CRS unchanged; only an omitted CRS (None) in collect_metadata reaches the
\* engine as the empty string.
C11_CrsMarshalling ==
    last.op \in CrsOps /\ last.calls # <<>> =>
        /\ CrsArg.t = "int" => CrsSent = PyStr(CrsArg)
        /\ CrsArg.t = "str" => CrsSent = CrsArg
        /\ CrsArg = None => CrsSent = StrV("")
        /\ CrsSent = StrV("") => CrsArg \in {None, StrV("")}

RasterizeValid ==
    last.op = "TiledRasterRDD.rasterize" /\ (last.args[2].t = "str" \/ IsGeometry(last.args[2]))

SentRasterize ==
    {last.calls[k].m : k \in DOMAIN last.calls} \cap
        {"SpatialTiledRasterRDD.rasterize", "TemporalTiledRasterRDD.rasterize"}

\* C12: rasterize raises and calls neither engine constructor when rdd_type is
\* SPATIAL and an instant is supplied or rdd_type is temporal and none is; with
\* SPATIAL and no instant it calls exactly the spatial constructor, with a
\* temporal rdd_type and an instant exactly the temporal one with that instant.
C12_RasterizeDispatch ==
    RasterizeValid =>
        LET spatial == last.args[1].s = SPATIAL
            supplied == last.args[8] # None
        IN  /\ spatial = supplied => Failed /\ SentRasterize = {}
            /\ spatial /\ ~supplied =>
                  last.exc = NoExc /\ SentRasterize = {"SpatialTiledRasterRDD.rasterize"}
            /\ ~spatial /\ supplied =>
                  /\ last.exc = NoExc
                  /\ SentRasterize = {"TemporalTiledRasterRDD.rasterize"}
                  /\ last.calls[1].a[5] = last.args[8]

TemporalInstantZero ==
    RasterizeValid /\ last.args[1].s # SPATIAL /\ last.args[8] = IntV(0)

CacheOps == {"cache", "persist", "unpersist"}

\* The wrappers an operation returned (one, or a list of them).
Returned ==
    IF last.ret.t \in {"RasterRDD", "TiledRasterRDD"} THEN {last.ret}
    ELSE IF last.ret.t = "list"
    THEN {last.ret.items[k] : k \in {j \in DOMAIN last.ret.items :
                                        last.ret.items[j].t \in {"RasterRDD", "TiledRasterRDD"}}}
    ELSE {}

CacheStep ==
    /\ last'.op \in CacheOps /\ last'.exc = NoExc =>
          /\ wrappers'[last'.self].is_cached = (last'.op \in {"cache", "persist"})
          /\ \A w \in DOMAIN wrappers : w # last'.self => wrappers'[w] = wrappers[w]
          /\ Len(last'.calls) = 1
          /\ last'.calls[1].h = wrappers[last'.self].srdd
          /\ last'.op = "cache" =>
                last'.calls[1] = Req("persist", last'.calls[1].h,
                                     <<JavaStorageLevel(StorageLevel(MEMORY_ONLY))>>)
          /\ last'.op = "persist" =>
                last'.calls[1] = Req("persist", last'.calls[1].h,
                                     <<JavaStorageLevel(last'.args[1])>>)
          /\ last'.op = "unpersist" => last'.calls[1] = Req("unpersist", last'.calls[1].h, <<>>)
    /\ last'.op \notin CacheOps =>
          /\ wrappers' = wrappers
          /\ \A k \in DOMAIN last'.calls : last'.calls[k].m \notin {"persist", "unpersist"}

\* C14: every wrapper, constructed or returned by an operation, starts with
\* is_cached FALSE; a successful cache or persist leaves is_cached of its
\* wrapper TRUE and a successful unpersist leaves it FALSE, each with exactly one
\* persist (MEMORY_ONLY for cache) or unpersist request on the wrapper's handle;
\* no other operation changes is_cached of any wrapper.
C14_CacheFlag ==
    /\ \A w \in DOMAIN wrappers : ~wrappers[w].is_cached
    /\ [][CacheStep]_vars
    /\ [](last.op \notin CacheOps => \A r \in Returned : ~r.is_cached)

C14_Witness ==
    /\ last.op = "unpersist" /\ last.exc = NoExc
    /\ ~wrappers[1].is_cached /\ wrappers[3].is_cached
    /\ engine[3].storage = JavaStorageLevel(StorageLevel(MEMORY_ONLY))

FocalKnown == last.op = "TiledRasterRDD.focal" /\ last.args[1].s \in OPERATIONS

\* The request focal sends when it substitutes the default neighborhood.
DefaultNeighborhoodSent ==
    /\ last.args[2].t \notin {"Neighborhood", "str"}
    /\ last.calls = <<Req("focal", Self.srdd,
                          <<last.args[1], StrV(SQUARE), FloatV(2), FloatV(0), FloatV(0)>>)>>

\* C18: focal substitutes the default neighborhood (SQUARE, 1.0, 0.0, 0.0) only
\* when neighborhood is None and the operation is SLOPE or ASPECT; with None and
\* any other known operation it raises ValueError without an engine call; a
\* supplied neighborhood that is neither a Neighborhood nor a string raises
\* ValueError for every operation and is never replaced by the default.
C18_DefaultNeighborhood ==
    FocalKnown =>
        /\ DefaultNeighborhoodSent =>
              last.args[2] = None /\ last.args[1].s \in {SLOPE, ASPECT}
        /\ last.args[2] = None /\ last.args[1].s \notin {SLOPE, ASPECT} =>
              last.exc = "ValueError" /\ NoEngineCall
        /\ last.args[2].t \notin {"none", "Neighborhood", "str"} =>
              last.exc = "ValueError" /\ NoEngineCall

IsPowerOfTwo(n) == \E k \in 0..n : n = 2 ^ k

\* C19: pyramid sends the pyramid request only when the tiles' column count and
\* row count are each a power of two; whenever either is not, it raises
\* ValueError and sends no pyramid request; on success it returns one
\* TiledRasterRDD per handle the engine returned, each with the source's rdd_type.
C19_PyramidPowerOfTwo ==
    last.op = "TiledRasterRDD.pyramid" =>
        LET tl == TileLayoutOf(Self)
            square == IsPowerOfTwo(tl.tileCols) /\ IsPowerOfTwo(tl.tileRows)
        IN  /\ Sent("pyramid") => square
            /\ ~square => last.exc = "ValueError" /\ ~Sent("pyramid")
            /\ last.exc = NoExc =>
                  /\ last.ret.t = "list"
                  /\ \A k \in DOMAIN last.ret.items :
                        /\ last.ret.items[k].t = "TiledRasterRDD"
                        /\ last.ret.items[k].rdd_type = Self.rdd_type

\* C20: for a value_map whose keys are all single ints or floats and data_type
\* int or float, reclassify raises nothing and hands the engine a mapping equal
\* to value_map.
C20_NumericKeysAccepted ==
    /\ last.op = "reclassify"
    /\ last.args[2].name \in {"int", "float"}
    /\ \A j \in DOMAIN last.args[1] : last.args[1][j][1].t \in {"int", "float"}
    => /\ last.exc = NoExc
       /\ Len(last.calls) = 1
       /\ last.calls[1].a[1].items = {last.args[1][j] : j \in DOMAIN last.args[1]}

(***************************************************************************)
(* Tiling.                                                                 *)
(***************************************************************************)
RecordsOf(w) == engine[w.srdd].records
UniqueKeys(records) ==
    \A i, j \in DOMAIN records : i # j => records[i].key # records[j].key
GridKeys(tl) == {Key(c, r) : c \in 0..(tl.layoutCols - 1), r \in 0..(tl.layoutRows - 1)}

\* cut holds exactly one record for each raster and each tile the raster intersects.
OnePerPair(cut, rasters, ld) ==
    \A i \in DOMAIN rasters : \A key \in GridKeys(ld.tileLayout) :
        Cardinality({j \in DOMAIN cut :
                        cut[j].key = key /\ cut[j].sources = rasters[i].sources})
            = IF Intersects(rasters[i].extent, ld, key) THEN 1 ELSE 0

\* C15: tile_to_layout yields a collection whose keys are pairwise unique;
\* cut_tiles yields one record per source raster and layout tile it intersects;
\* on the same rasters and metadata cut_tiles yields at least as many records as
\* tile_to_layout.
C15_CutVersusTileToLayout ==
    request.t = "tiling" =>
        /\ request.tiled # None => UniqueKeys(RecordsOf(request.tiled))
        /\ request.cut # None =>
              OnePerPair(RecordsOf(request.cut), request.layers,
                         request.metadata.layoutDefinition)
        /\ request.tiled # None /\ request.cut # None =>
              Len(RecordsOf(request.cut)) >= Len(RecordsOf(request.tiled))

C15_Witness ==
    /\ request.t = "tiling" /\ request.tiled # None /\ request.cut # None
    /\ request.layers = layers
    /\ ~UniqueKeys(RecordsOf(request.cut))
    /\ Len(RecordsOf(request.cut)) > Len(RecordsOf(request.tiled))

\* e contains the extent of every raster and touches one of them on each side.
MinimalRectangle(e, rasters) ==
    LET es == {rasters[j].extent : j \in DOMAIN rasters}
    IN  /\ \A r \in es : e.xmin <= r.xmin /\ e.ymin <= r.ymin
                         /\ r.xmax <= e.xmax /\ r.ymax <= e.ymax
        /\ \E r \in es : r.xmin = e.xmin
        /\ \E r \in es : r.ymin = e.ymin
        /\ \E r \in es : r.xmax = e.xmax
        /\ \E r \in es : r.ymax = e.ymax

\* n = ceil(length / t)
IsCeil(n, length, t) == n * t >= length /\ (n - 1) * t < length

C21_FlagAgreesWithEngine ==
    /\ \A w \in DOMAIN wrappers :
          wrappers[w].is_cached <=> engine[wrappers[w].srdd].storage # None
    /\ last.op \in CacheOps /\ last.calls # <<>> /\ last.exc # NoExc =>
          /\ last.exc = "Py4JJavaError"
          /\ Len(last.calls) = 1
          /\ Self.is_cached = (last.op = "unpersist")

\* The collections among the operands of the last local operation.
OperandCollections ==
    LET value == last.args[1]
    IN  IF value.t = "TiledRasterRDD" THEN {value}
        ELSE IF value.t = "list" THEN {value.items[k] : k \in DOMAIN value.items}
        ELSE {}

\* C22: a local arithmetic operation is sent to the engine only when every
\* operand collection, alone or as an element of a list, has self's rdd_type
\* and self's tile layout, and raises before the engine call otherwise; an
\* operand that is not a number, a TiledRasterRDD or a list raises TypeError
\* without an engine call.
C22_EveryOperandChecked ==
    last.op \in Dunders =>
        LET mismatch == \E c \in OperandCollections :
                            \/ c.rdd_type # Self.rdd_type
                            \/ TileLayoutOf(c) # TileLayoutOf(Self)
            sent == \E k \in DOMAIN last.calls : last.calls[k].m \in LocalMethods
        IN  /\ sent => ~mismatch
            /\ mismatch => Failed
            /\ last.args[1].t \notin {"int", "float", "TiledRasterRDD", "list"} =>
                  last.exc = "TypeError" /\ NoEngineCall

====
